---- MODULE Spec2Model ----
(***************************************************************************)
(* Request pipelines of the mentorship-platform REST backend: the          *)
(* resources router, the profile router and the list filter of             *)
(* GET /resources.  A request occupies a slot; it runs its route's         *)
(* middleware chain one middleware at a time and then the route handler.   *)
(* Database calls are the suspension points at which requests interleave.  *)
(***************************************************************************)
EXTENDS Integers, Sequences, FiniteSets, TLC

VARIABLES
  resources,       \* the resources table: id -> row
  nextResourceId,  \* the id the next inserted resource gets
  allResources,    \* the rows Resources.findAll returns to the list filter
  profiles,        \* the profiles table: profile_id -> row
  pendingUpdates,  \* updates started and not awaited, not yet applied
  reqs,            \* the requests in flight or just answered, by slot
  notes,           \* the notes table: note_id -> content, in order of creation
  assignments,     \* the assignments table: assignment_id -> row
  returned         \* the last call of the assignments module and its result

vars == <<resources, nextResourceId, allResources, profiles, pendingUpdates, reqs,
          notes, assignments, returned>>

\* The stored data, which a step of a request may leave as it is.
data == <<resources, nextResourceId, allResources, profiles, pendingUpdates,
          notes, assignments, returned>>

(***************************************************************************)
(* Bounds of the model.                                                    *)
(***************************************************************************)
MaxResourceId == 2
MaxRows == 2
MaxNotes == 2
MaxAssignments == 2
MaxMatches == 2

\* Two requests are in flight at a time; an answered one makes room for the next.
Slots == {1, 2}
ResourceIds == 1..MaxResourceId

(***************************************************************************)
(* Values.                                                                 *)
(***************************************************************************)
NoRow == [present |-> FALSE, resource_name |-> "", category |-> "", condition |-> ""]

Row(b) == [present |-> TRUE, resource_name |-> b.resource_name,
           category |-> b.category, condition |-> b.condition]

\* Request bodies of POST /resources and PUT /resources/:id: the three
\* required fields of the Resource schema, "" standing for a missing field.
ResourceBodies ==
  { [resource_name |-> "Chromebook", category |-> "Office", condition |-> "New"],
    [resource_name |-> "", category |-> "Office", condition |-> "New"],
    [resource_name |-> "Notebook", category |-> "", condition |-> "New"],
    [resource_name |-> "Notebook", category |-> "Office", condition |-> ""] }

NoBody == [resource_name |-> "", category |-> "", condition |-> ""]

\* Roles of the glossary, ordered by tier.
Tier(role) ==
  CASE role = "mentee" -> 1
    [] role = "mentor" -> 2
    [] role = "moderator" -> 3
    [] role = "admin" -> 4
    [] role = "superAdmin" -> 5
    [] OTHER -> 0

\* The profiles the identity provider knows; a bearer token names one of
\* them, and token 0 is an absent or invalid token.
SeedProfiles ==
  [p \in 1..3 |->
     [role |-> IF p = 1 THEN "superAdmin" ELSE IF p = 2 THEN "admin" ELSE "mentor",
      name |-> "n0", email |-> "e0", is_active |-> TRUE]]

ProfileIds == DOMAIN SeedProfiles
Tokens == {0} \cup ProfileIds

Idle ==
  [route |-> "idle", pc |-> 0, done |-> FALSE, token |-> 0, id |-> 0,
   body |-> NoBody, role |-> "unresolved", caller |-> 0, attached |-> NoRow,
   status |-> 0, sends |-> 0, nexts |-> 0, err |-> "none", msgId |-> 0,
   dbCalls |-> 0, ran |-> << >>, after |-> FALSE, msg |-> "",
   query |-> << >>, result |-> << >>,
   changes |-> [name |-> "", email |-> "", role |-> ""], stage |-> 0,
   seen |-> FALSE, called |-> FALSE, content |-> "",
   matches |-> 0, settled |-> 0, pushed |-> 0, resumed |-> 0, sentWith |-> 0]

\* No assignment rows, and no call of the assignments module made yet.
NoAssignments == << >>

NoCall == [op |-> "none", id |-> 0, changes |-> [mentor_id |-> 0, mentee_id |-> 0],
           before |-> NoAssignments,
           value |-> [kind |-> "nothing", rows |-> {}, n |-> 0]]

(***************************************************************************)
(* Responding.  res.status(s).json(..) sends a response; next(e) hands e   *)
(* to the central error step, which answers with e's status.               *)
(***************************************************************************)
Respond(q, st) ==
  [q EXCEPT !.status = st, !.sends = @ + 1, !.done = TRUE]

Forward(q, st, shape) ==
  [q EXCEPT !.status = st, !.nexts = @ + 1, !.err = shape, !.done = TRUE]

Advance(q) == [q EXCEPT !.pc = @ + 1]

\* A rejected promise nobody catches: the request is left without a response.
Hang(q) == [q EXCEPT !.err = "uncaught", !.done = TRUE]

\* q with the middleware (or handler) it is running noted.
Ran(q, name) == [q EXCEPT !.ran = Append(@, name)]

(***************************************************************************)
(* Routes of the resources router: the middleware chain of each.           *)
(***************************************************************************)
RouteResourcesGet == <<"authRequired", "handler">>

RouteResourcesGetById_NoCheck == <<"authRequired", "handler">>

RouteResourcesGetById == <<"authRequired", "checkResourceIdExists", "handler">>

RouteResourcesPost_NoAdmin == <<"authRequired", "validateResource", "handler">>

RouteResourcesPost_NoValidate == <<"authRequired", "adminRequired", "handler">>

RouteResourcesPost == <<"authRequired", "adminRequired", "validateResource", "handler">>

RouteResourcesPut_NoCheck ==
  <<"authRequired", "adminRequired", "validateResource", "handler">>

RouteResourcesPut ==
  <<"authRequired", "adminRequired", "checkResourceIdExists", "validateResource",
    "handler">>

RouteResourcesDelete_NoCheck == <<"authRequired", "adminRequired", "handler">>

RouteResourcesDelete ==
  <<"authRequired", "adminRequired", "checkResourceIdExists", "handler">>

(***************************************************************************)
(* Routes of the profile router.                                           *)
(***************************************************************************)
RouteProfileGetById == <<"authRequired", "handler">>

RouteProfilePut == <<"validation", "authRequired", "handler">>

RouteProfilePutById == <<"adminRequired", "authRequired", "handler">>

RouteProfileIsActive ==
  <<"authRequired", "superAdminRequired", "validateUser", "handler">>

RouteMentorInformation == <<"handler">>

RouteProfilePost == <<"authRequired", "handler">>

RouteProfileMatch == <<"authRequired", "handler">>

\* Every route of the notes router: the handler alone.
RouteNotes == <<"handler">>

NotesRoutes ==
  {"GET /notes", "GET /notes/:note_id", "POST /notes", "PUT /notes/:note_id",
   "DELETE /notes/:note_id"}

Chain(route) ==
  CASE route = "GET /resources" -> RouteResourcesGet
    [] route = "GET /resources/:id" -> RouteResourcesGetById
    [] route = "POST /resources" -> RouteResourcesPost
    [] route = "PUT /resources/:id" -> RouteResourcesPut
    [] route = "DELETE /resources/:id" -> RouteResourcesDelete
    [] route = "PUT /profile" -> RouteProfilePut
    [] route = "PUT /profile/:id" -> RouteProfilePutById
    [] route = "PUT /profile/is_active/:profile_id" -> RouteProfileIsActive
    [] route = "GET /profile/:id" -> RouteProfileGetById
    [] route = "GET /profile/mentor/information" -> RouteMentorInformation
    [] route = "POST /profile" -> RouteProfilePost
    [] route = "GET /profile/match/:id" -> RouteProfileMatch
    [] route \in NotesRoutes -> RouteNotes
    [] OTHER -> << >>

ResourceRoutes ==
  {"GET /resources/:id", "POST /resources", "PUT /resources/:id",
   "DELETE /resources/:id"}

\* The middleware (or handler) request q is about to run.
At(q, name) ==
  /\ ~q.done
  /\ q.pc \in 1..Len(Chain(q.route))
  /\ Chain(q.route)[q.pc] = name

(***************************************************************************)
(* Data access of the resources table.                                     *)
(***************************************************************************)
Resources_findById(tbl, id) == IF id \in DOMAIN tbl THEN tbl[id] ELSE NoRow

Resources_Create(tbl, id, row) == [tbl EXCEPT ![id] = row]

\* Update merges the supplied fields into the row with that id, if any.
Resources_Update(tbl, id, changes) ==
  IF id \in DOMAIN tbl /\ tbl[id].present
    THEN [tbl EXCEPT ![id] = changes]
    ELSE tbl

Resources_Delete(tbl, id) ==
  IF id \in DOMAIN tbl THEN [tbl EXCEPT ![id] = NoRow] ELSE tbl

ValidResource(b) ==
  b.resource_name # "" /\ b.category # "" /\ b.condition # ""

(***************************************************************************)
(* Middleware.                                                             *)
(***************************************************************************)
\* authRequired: resolves the bearer token to the caller's profile, 401
\* if the token is absent or invalid.
AuthRequired(r) ==
  LET q == Ran(reqs[r], "authRequired") IN
  /\ At(reqs[r], "authRequired")
  /\ reqs' = [reqs EXCEPT ![r] =
        IF q.token \in DOMAIN profiles
          THEN Advance([q EXCEPT !.role = profiles[q.token].role,
                                 !.caller = q.token])
          ELSE Forward(q, 401, "normalized")]
  /\ UNCHANGED data

\* The outcomes of a role check: it passes a resolved profile of the
\* required tier, answers 403 below it, and with no profile resolved yet
\* it reads a field of undefined.
RoleCheck(q, role) ==
  IF q.role = "unresolved"
    THEN {Forward(q, 403, "normalized"), Forward(q, 500, "raw"), Hang(q)}
    ELSE IF Tier(q.role) >= Tier(role)
           THEN {Advance(q)}
           ELSE {Forward(q, 403, "normalized")}

AdminRequired(r) ==
  /\ At(reqs[r], "adminRequired")
  /\ \E q2 \in RoleCheck(Ran(reqs[r], "adminRequired"), "admin") :
        reqs' = [reqs EXCEPT ![r] = q2]
  /\ UNCHANGED data

\* checkResourceIdExists: attaches the row to the request, or 404 naming
\* the id.
CheckResourceIdExists(r) ==
  LET q == Ran(reqs[r], "checkResourceIdExists")
      row == Resources_findById(resources, q.id) IN
  /\ At(reqs[r], "checkResourceIdExists")
  /\ reqs' = [reqs EXCEPT ![r] =
        IF row.present
          THEN Advance([q EXCEPT !.attached = row])
          ELSE [Forward(q, 404, "normalized") EXCEPT !.msgId = q.id]]
  /\ UNCHANGED data

\* validateResource: passes the validated body on as req._resource, or 400.
ValidateResource(r) ==
  LET q == Ran(reqs[r], "validateResource") IN
  /\ At(reqs[r], "validateResource")
  /\ reqs' = [reqs EXCEPT ![r] =
        IF ValidResource(q.body)
          THEN Advance([q EXCEPT !.attached = Row(q.body)])
          ELSE Forward(q, 400, "normalized")]
  /\ UNCHANGED data

(***************************************************************************)
(* Handlers of the resources router.  Each awaits one data-access call     *)
(* and answers with its result; a failed call is forwarded as a 500.       *)
(***************************************************************************)
Handling(r, route) == reqs[r].route = route /\ At(reqs[r], "handler")

GetResourceById(r) ==
  /\ Handling(r, "GET /resources/:id")
  /\ reqs' = [reqs EXCEPT ![r] = Respond(Ran(@, "handler"), 200)]
  /\ UNCHANGED data

PostResource(r) ==
  LET q == [Ran(reqs[r], "handler") EXCEPT !.dbCalls = @ + 1] IN
  /\ Handling(r, "POST /resources")
  /\ \/ /\ nextResourceId <= MaxResourceId
        /\ resources' = Resources_Create(resources, nextResourceId, q.attached)
        /\ nextResourceId' = nextResourceId + 1
        /\ reqs' = [reqs EXCEPT ![r] = [Respond(q, 201) EXCEPT !.id = nextResourceId]]
     \/ /\ reqs' = [reqs EXCEPT ![r] = Forward(q, 500, "normalized")]
        /\ UNCHANGED <<resources, nextResourceId>>
  /\ UNCHANGED <<allResources, profiles, pendingUpdates, notes, assignments, returned>>

PutResource(r) ==
  LET q == [Ran(reqs[r], "handler") EXCEPT !.dbCalls = @ + 1] IN
  /\ Handling(r, "PUT /resources/:id")
  /\ \/ /\ resources' = Resources_Update(resources, q.id, q.attached)
        /\ reqs' = [reqs EXCEPT ![r] = Respond(q, 200)]
     \/ /\ reqs' = [reqs EXCEPT ![r] = Forward(q, 500, "normalized")]
        /\ UNCHANGED resources
  /\ UNCHANGED <<nextResourceId, allResources, profiles, pendingUpdates, notes, assignments, returned>>

DeleteResource(r) ==
  LET q == [Ran(reqs[r], "handler") EXCEPT !.dbCalls = @ + 1] IN
  /\ Handling(r, "DELETE /resources/:id")
  /\ \/ /\ resources' = Resources_Delete(resources, q.id)
        /\ reqs' = [reqs EXCEPT ![r] = Respond(q, 200)]
     \/ /\ reqs' = [reqs EXCEPT ![r] = Forward(q, 500, "normalized")]
        /\ UNCHANGED resources
  /\ UNCHANGED <<nextResourceId, allResources, profiles, pendingUpdates, notes, assignments, returned>>

(***************************************************************************)
(* Requests arrive in a free slot; an answered request leaves its slot.    *)
(***************************************************************************)
\* Whether a request of this route and id is sent after one of the same
\* route and id has been answered 200.
SentAfter200(route, id) ==
  \E s \in Slots :
    /\ reqs[s].done /\ reqs[s].route = route /\ reqs[s].id = id
    /\ reqs[s].status = 200

NewRequest(route, token, id, body) ==
  [Idle EXCEPT !.route = route, !.pc = 1, !.token = token, !.id = id,
               !.body = body, !.after = SentAfter200(route, id)]

IssueResource(r) ==
  /\ reqs[r] = Idle
  /\ \E route \in ResourceRoutes, token \in Tokens :
       \E id \in (IF route = "POST /resources" THEN {0} ELSE ResourceIds),
          body \in (IF route \in {"POST /resources", "PUT /resources/:id"}
                      THEN ResourceBodies ELSE {NoBody}) :
         reqs' = [reqs EXCEPT ![r] = NewRequest(route, token, id, body)]
  /\ UNCHANGED data

Forget(r) ==
  /\ reqs[r].done
  /\ reqs' = [reqs EXCEPT ![r] = Idle]
  /\ UNCHANGED data

(***************************************************************************)
(* The resources router.                                                   *)
(***************************************************************************)
SeedResources ==
  [i \in ResourceIds |->
     IF i = 1 THEN Row([resource_name |-> "Notebook", category |-> "Office",
                        condition |-> "New"])
              ELSE NoRow]

Init ==
  /\ resources = SeedResources
  /\ nextResourceId = 2
  /\ allResources = << >>
  /\ profiles = SeedProfiles
  /\ reqs = [r \in Slots |-> Idle]
  /\ pendingUpdates = {}
  /\ notes = << >>
  /\ assignments = NoAssignments
  /\ returned = NoCall

Next ==
  \E r \in Slots :
    \/ IssueResource(r)
    \/ AuthRequired(r)
    \/ AdminRequired(r)
    \/ CheckResourceIdExists(r)
    \/ ValidateResource(r)
    \/ GetResourceById(r)
    \/ PostResource(r)
    \/ PutResource(r)
    \/ DeleteResource(r)
    \/ Forget(r)

Spec == Init /\ [][Next]_vars

(***************************************************************************)
(* Properties of the resources router.                                     *)
(***************************************************************************)
IsAdminTier(q) == q.role # "unresolved" /\ Tier(q.role) >= Tier("admin")

\* The step is one of request r.
Moved(r) == reqs'[r] # reqs[r]

\* In the run of a request, every b comes after an a.
Before(ran, a, b) ==
  \A j \in DOMAIN ran : ran[j] = b => \E i \in 1..(j - 1) : ran[i] = a

WriteRoutes == {"POST /resources", "PUT /resources/:id", "DELETE /resources/:id"}

\* C2: a DELETE /resources/:id answered 200 has removed the row, and a
\* DELETE of the same id sent by an admin after that answer is answered 404
\* by the existence check, calls no data access and leaves the table as it is.
C2_DeleteTwice ==
  /\ [](\A r \in Slots :
          LET q == reqs[r] IN
          (q.route = "DELETE /resources/:id" /\ q.done) =>
            /\ q.status = 200 => ~resources[q.id].present
            /\ IsAdminTier(q) => q.status \in {200, 404, 500}
            /\ (q.after /\ IsAdminTier(q)) =>
                 q.status = 404 /\ q.msgId = q.id /\ q.dbCalls = 0)
  /\ [][\A r \in Slots :
          (reqs[r].route = "DELETE /resources/:id" /\ reqs[r].after /\ Moved(r))
            => UNCHANGED <<resources, nextResourceId>>]_vars

C2_Witness ==
  \E r \in Slots :
    /\ reqs[r].route = "DELETE /resources/:id" /\ reqs[r].done /\ reqs[r].after
    /\ IsAdminTier(reqs[r]) /\ reqs[r].status = 404

\* C4: the resources table changes only in the handler step of a POST, PUT
\* or DELETE request whose token resolved to a profile of the admin tier or
\* above; such a request with no valid token is answered 401 and one from
\* a caller below the admin tier 403, neither calling the data access.
C4_AdminOnlyWrites ==
  /\ [](\A r \in Slots :
          LET q == reqs[r] IN
          (q.route \in WriteRoutes /\ q.done) =>
            /\ q.token \notin DOMAIN profiles => q.status = 401 /\ q.dbCalls = 0
            /\ (q.token \in DOMAIN profiles
                  /\ Tier(profiles[q.token].role) < Tier("admin"))
                 => q.status = 403 /\ q.dbCalls = 0)
  /\ [][<<resources, nextResourceId>>' # <<resources, nextResourceId>> =>
          \E r \in Slots :
            /\ reqs[r].route \in WriteRoutes /\ IsAdminTier(reqs[r])
            /\ Moved(r) /\ reqs'[r].dbCalls = 1]_vars

C4_Witness ==
  \E r \in Slots :
    /\ reqs[r].route = "POST /resources" /\ reqs[r].done
    /\ reqs[r].role = "mentor" /\ reqs[r].status = 403
    /\ ValidResource(reqs[r].body)

\* C7: a POST /resources whose body lacks resource_name, category or
\* condition never calls Resources.Create, none of its steps changes the
\* table, and once it is past the role check it is answered 400.
C7_InvalidPostNoInsert ==
  /\ [](\A r \in Slots :
          LET q == reqs[r] IN
          (q.route = "POST /resources" /\ ~ValidResource(q.body)) =>
            /\ q.dbCalls = 0
            /\ (q.done /\ IsAdminTier(q)) => q.status = 400 /\ q.sends = 0)
  /\ [][\A r \in Slots :
          (reqs[r].route = "POST /resources" /\ ~ValidResource(reqs[r].body)
             /\ Moved(r))
            => UNCHANGED <<resources, nextResourceId>>]_vars

C7_Witness ==
  \E r \in Slots :
    /\ reqs[r].route = "POST /resources" /\ reqs[r].done
    /\ reqs[r].body.category = "" /\ reqs[r].status = 400

\* C8: the existence check of GET /resources/:id answers 404 naming the id
\* when no row has it, and the handler is then never run; when a row has
\* it the handler answers 200 with that row.
C8_GetById ==
  /\ [](\A r \in Slots :
          LET q == reqs[r] IN
          (q.route = "GET /resources/:id" /\ q.done /\ q.role # "unresolved") =>
            \/ /\ q.status = 404 /\ q.msgId = q.id /\ q.sends = 0
               /\ \A i \in DOMAIN q.ran : q.ran[i] # "handler"
            \/ /\ q.status = 200 /\ q.sends = 1 /\ q.nexts = 0
               /\ q.attached.present)
  /\ [][\A r \in Slots :
          (reqs[r].route = "GET /resources/:id" /\ Moved(r)) =>
            /\ At(reqs[r], "checkResourceIdExists") =>
                 IF Resources_findById(resources, reqs[r].id).present
                   THEN /\ ~reqs'[r].done
                        /\ reqs'[r].attached = resources[reqs[r].id]
                   ELSE reqs'[r].done /\ reqs'[r].status = 404
            /\ At(reqs[r], "handler") =>
                 /\ reqs'[r].status = 200
                 /\ reqs'[r].attached = reqs[r].attached]_vars

C8_Witness ==
  \E r \in Slots :
    /\ reqs[r].route = "GET /resources/:id" /\ reqs[r].done
    /\ reqs[r].status = 404 /\ reqs[r].msgId = reqs[r].id
    /\ ~resources[reqs[r].id].present

\* C9: a PUT /resources/:id is never left without a step to take or
\* without an answer; its existence check runs before the body validation
\* and before Resources.Update; and for an id no row has the check answers
\* 404 with no update made.
StepResource(r) ==
  \/ AuthRequired(r) \/ AdminRequired(r) \/ CheckResourceIdExists(r)
  \/ ValidateResource(r) \/ PutResource(r)

Str(s) == [t |-> "string", s |-> s, b |-> FALSE]
Bool(b) == [t |-> "boolean", s |-> << >>, b |-> b]
Null == [t |-> "null", s |-> << >>, b |-> FALSE]
Undefined == [t |-> "undefined", s |-> << >>, b |-> FALSE]

Lower(c) ==
  CASE c = "A" -> "a"
    [] c = "B" -> "b"
    [] c = "C" -> "c"
    [] OTHER -> c

toLowerCase(s) == [i \in 1..Len(s) |-> Lower(s[i])]

includes(s, t) ==
  \E i \in 0..(Len(s) - Len(t)) : SubSeq(s, i + 1, i + Len(t)) = t

\* resource[key]
Field(resource, key) ==
  IF key \in DOMAIN resource THEN resource[key] ELSE Undefined

\* The callback without the short circuit: the comparison is made for
\* every key, also of a resource an earlier key rejected.
RECURSIVE FilterCallback_Eager(_, _, _, _)
FilterCallback_Eager(resource, filters, k, resourceIsValid) ==
  IF k > Len(filters)
    THEN (IF resourceIsValid THEN "keep" ELSE "drop")
    ELSE LET v == Field(resource, filters[k].key)
             f == Str(filters[k].value) IN
         IF v = f
           THEN FilterCallback_Eager(resource, filters, k + 1, resourceIsValid)
           ELSE IF v.t # "string"
                  THEN "throw"
                  ELSE FilterCallback_Eager(resource, filters, k + 1,
                         resourceIsValid /\ includes(toLowerCase(v.s), toLowerCase(f.s)))

\* The callback of allResources.filter: the keys of the query are visited
\* in order; && skips the comparison once the resource is rejected, and
\* toLowerCase of a value that is no string throws.
RECURSIVE FilterCallback(_, _, _, _)
FilterCallback(resource, filters, k, resourceIsValid) ==
  IF k > Len(filters)
    THEN (IF resourceIsValid THEN "keep" ELSE "drop")
    ELSE LET v == Field(resource, filters[k].key)
             f == Str(filters[k].value) IN
         IF ~resourceIsValid
           THEN FilterCallback(resource, filters, k + 1, FALSE)
           ELSE IF v = f
                  THEN FilterCallback(resource, filters, k + 1, TRUE)
                  ELSE IF v.t # "string"
                         THEN "throw"
                         ELSE FilterCallback(resource, filters, k + 1,
                                includes(toLowerCase(v.s), toLowerCase(f.s)))

Kept(resource, filters) == FilterCallback(resource, filters, 1, TRUE) = "keep"

FilterThrows(all, filters) ==
  \E i \in 1..Len(all) : FilterCallback(all[i], filters, 1, TRUE) = "throw"

FilteredResources(all, filters) ==
  LET Test(resource) == Kept(resource, filters) IN SelectSeq(all, Test)

\* The handler of GET /resources.  req.query is always an object, so the
\* early return on a missing query is never taken, and an empty query
\* keeps every resource.
GetResources(r) ==
  LET q == [Ran(reqs[r], "handler") EXCEPT !.dbCalls = @ + 1] IN
  /\ Handling(r, "GET /resources")
  /\ \/ reqs' = [reqs EXCEPT ![r] =
           IF FilterThrows(allResources, q.query)
             THEN [Forward(q, 500, "normalized") EXCEPT !.msg = "TypeError"]
             ELSE [Respond(q, 200) EXCEPT
                     !.result = FilteredResources(allResources, q.query)]]
     \/ reqs' = [reqs EXCEPT ![r] =
           [Forward(q, 500, "normalized") EXCEPT !.msg = "db"]]
  /\ UNCHANGED data

\* The rows and the queries the filter is tried on.
FilterNames == { <<"A", "b">>, <<"b", "a">>, <<"B">> }

FilterRows ==
  { [resource_name |-> Str(n), assigned |-> Bool(a),
     current_assignee |-> IF a THEN Str(<<"b">>) ELSE Null] :
      n \in FilterNames, a \in BOOLEAN }

FilterTables == UNION { [1..n -> FilterRows] : n \in 0..MaxRows }

FilterKeys == {"resource_name", "assigned", "current_assignee", "color"}

FilterValues == { <<"a", "B">>, <<"b">>, <<"A", "b">>, <<"c">>, << >> }

FilterPairs == [key : FilterKeys, value : FilterValues]

\* A query string: no key, one key, or two different keys in their order.
Queries ==
  {<< >>} \cup { <<p>> : p \in FilterPairs }
    \cup { pq \in FilterPairs \X FilterPairs : pq[1].key # pq[2].key }

IssueList(r) ==
  /\ \A s \in Slots : reqs[s] = Idle
  /\ \E token \in Tokens, query \in Queries :
       reqs' = [reqs EXCEPT ![r] =
         [NewRequest("GET /resources", token, 0, NoBody) EXCEPT !.query = query]]
  /\ UNCHANGED data

InitFilter ==
  /\ resources = SeedResources
  /\ nextResourceId = 2
  /\ allResources \in FilterTables
  /\ profiles = SeedProfiles
  /\ reqs = [r \in Slots |-> Idle]
  /\ pendingUpdates = {}
  /\ notes = << >>
  /\ assignments = NoAssignments
  /\ returned = NoCall

NextFilter ==
  \E r \in Slots :
    \/ IssueList(r)
    \/ AuthRequired(r)
    \/ GetResources(r)
    \/ Forget(r)

SpecFilter == InitFilter /\ [][NextFilter]_vars

\* What the list is said to return: the resources each of whose queried
\* fields equals the filter value or holds it as a substring, case ignored.
SaidToMatch(resource, filters) ==
  \A k \in 1..Len(filters) :
    LET v == Field(resource, filters[k].key) IN
    \/ v = Str(filters[k].value)
    \/ /\ v.t = "string"
       /\ includes(toLowerCase(v.s), toLowerCase(filters[k].value))

SaidToReturn(all, filters) ==
  LET Test(resource) == SaidToMatch(resource, filters) IN SelectSeq(all, Test)

\* C1: every authenticated GET /resources whose findAll succeeded is
\* answered 200 with exactly the resources that match every key of the
\* query (equal, or substring with case ignored).
C1_ListFilter ==
  \A r \in Slots :
    LET q == reqs[r] IN
    (q.route = "GET /resources" /\ q.done /\ q.role # "unresolved"
       /\ q.msg # "db") =>
      /\ q.status = 200
      /\ q.result = SaidToReturn(allResources, q.query)

\* The resource passes the k-th key of the query.
PassesKey(resource, filters, k) ==
  LET v == Field(resource, filters[k].key) IN
  \/ v = Str(filters[k].value)
  \/ v.t = "string" /\ includes(toLowerCase(v.s), toLowerCase(filters[k].value))

\* Some key of the query names a field of the resource that is no string
\* and does not equal the filter value, and no earlier key rejects the
\* resource.
ReachesNonString(resource, filters) ==
  \E k \in 1..Len(filters) :
    LET v == Field(resource, filters[k].key) IN
    /\ v.t # "string" /\ v # Str(filters[k].value)
    /\ \A j \in 1..(k - 1) : PassesKey(resource, filters, j)

\* C15: an authenticated GET /resources with string values in its query
\* and whose findAll succeeded is answered
\* with one error {status: 500, message} carrying the TypeError's message
\* and no list when some resource reaches a key whose field is no string
\* and does not equal the filter value; a resource that an earlier key
\* rejected does not make it fail, and with no such resource it is
\* answered 200.
C15_FilterNonString ==
  \A r \in Slots :
    LET q == reqs[r] IN
    (q.route = "GET /resources" /\ q.done /\ q.role # "unresolved"
       /\ q.msg # "db") =>
      IF \E i \in 1..Len(allResources) : ReachesNonString(allResources[i], q.query)
        THEN /\ q.status = 500 /\ q.nexts = 1 /\ q.sends = 0
             /\ q.err = "normalized" /\ q.msg = "TypeError"
             /\ q.result = << >>
        ELSE q.status = 200 /\ q.sends = 1 /\ q.nexts = 0

\* A query of two keys, the second naming the boolean field, on a table
\* whose first row the first key rejects and whose second row it passes:
\* answered 500.
C15_Witness ==
  \E r \in Slots :
    LET q == reqs[r] IN
    /\ q.route = "GET /resources" /\ q.done /\ q.status = 500 /\ q.msg = "TypeError"
    /\ Len(q.query) = 2 /\ q.query[2].key = "assigned"
    /\ Len(allResources) = 2
    /\ ~PassesKey(allResources[1], q.query, 1)
    /\ PassesKey(allResources[2], q.query, 1)

\* The same query on a table all of whose rows the first key rejects:
\* answered 200 with the empty list.
C15_Skipped ==
  \E r \in Slots :
    LET q == reqs[r] IN
    /\ q.route = "GET /resources" /\ q.done /\ q.status = 200
    /\ Len(q.query) = 2 /\ q.query[2].key = "assigned"
    /\ Len(allResources) = 2
    /\ \A i \in 1..2 : ~PassesKey(allResources[i], q.query, 1)

(***************************************************************************)
(* The profile router.                                                     *)
(***************************************************************************)
NoChanges == [name |-> "", email |-> "", role |-> ""]

\* Bodies of PUT /profile: a name and an email, the email well-formed or not.
SelfChanges ==
  { [name |-> "n1", email |-> "e1", role |-> ""],
    [name |-> "n1", email |-> "malformed", role |-> ""] }

\* Bodies of PUT /profile/:id: any field.
AdminChanges ==
  { [name |-> "", email |-> "", role |-> "admin"],
    [name |-> "n2", email |-> "", role |-> ""] }

\* The profile ids asked for in a path: one that has a row, one that has none.
TargetIds == {3, 4}

Profiles_exists(tbl, id) == id \in DOMAIN tbl

\* update merges the supplied fields into the row with that id, if any.
Profiles_update(tbl, id, changes) ==
  IF id \in DOMAIN tbl
    THEN [tbl EXCEPT ![id] =
            [name |-> IF changes.name # "" THEN changes.name ELSE @.name,
             email |-> IF changes.email # "" THEN changes.email ELSE @.email,
             role |-> IF changes.role # "" THEN changes.role ELSE @.role,
             is_active |-> @.is_active]]
    ELSE tbl

\* updateIsActive(profile_id, is_active) stores the opposite of the value
\* it is passed.
Profiles_updateIsActive(tbl, id, is_active) ==
  IF id \in DOMAIN tbl THEN [tbl EXCEPT ![id].is_active = ~is_active] ELSE tbl

\* validation(validateSelfUpdate): passes a body that fits the schema, or 400.
Validation(r) ==
  LET q == Ran(reqs[r], "validation") IN
  /\ At(reqs[r], "validation")
  /\ reqs' = [reqs EXCEPT ![r] =
        IF q.changes.email # "malformed"
          THEN Advance(q)
          ELSE Forward(q, 400, "normalized")]
  /\ UNCHANGED data

SuperAdminRequired(r) ==
  /\ At(reqs[r], "superAdminRequired")
  /\ \E q2 \in RoleCheck(Ran(reqs[r], "superAdminRequired"), "superAdmin") :
        reqs' = [reqs EXCEPT ![r] = q2]
  /\ UNCHANGED data

\* validateUser: the profile named in the path exists, or 404.
ValidateUser(r) ==
  LET q == Ran(reqs[r], "validateUser") IN
  /\ At(reqs[r], "validateUser")
  /\ reqs' = [reqs EXCEPT ![r] =
        IF Profiles_exists(profiles, q.id)
          THEN Advance(q)
          ELSE [Forward(q, 404, "normalized") EXCEPT !.msgId = q.id]]
  /\ UNCHANGED data

\* GET /profile/:id.  The attendance lookup is awaited outside any try:
\* when it rejects, nothing in the handler catches it.
GetProfileById(r) ==
  LET q == Ran(reqs[r], "handler") IN
  /\ Handling(r, "GET /profile/:id")
  /\ reqs[r].stage = 0
  /\ \/ reqs' = [reqs EXCEPT ![r] = [reqs[r] EXCEPT !.stage = 1, !.dbCalls = @ + 1]]
     \/ \E q2 \in {Hang(q), Forward(q, 500, "raw")} :
          reqs' = [reqs EXCEPT ![r] = [q2 EXCEPT !.dbCalls = @ + 1]]
  /\ UNCHANGED data

GetProfileByIdThen(r) ==
  LET q == [Ran(reqs[r], "handler") EXCEPT !.dbCalls = @ + 1] IN
  /\ Handling(r, "GET /profile/:id")
  /\ reqs[r].stage = 1
  /\ \/ reqs' = [reqs EXCEPT ![r] =
           IF Profiles_exists(profiles, q.id)
             THEN Respond(q, 200)
             ELSE [Forward(q, 404, "normalized") EXCEPT !.msg = "ProfileNotFound"]]
     \/ reqs' = [reqs EXCEPT ![r] = Forward(q, 500, "normalized")]
  /\ UNCHANGED data

\* The row PUT /profile updates is the caller's own (req.profile), the
\* row PUT /profile/:id updates is the one named in the path.
UpdateTarget_Param(q) == q.id

UpdateTarget(q) == IF q.route = "PUT /profile" THEN q.caller ELSE q.id

\* PUT /profile and PUT /profile/:id: Profiles.update, then the outbound
\* dsService.postProfileUpdate, then the answer.  req.body is always an
\* object, so the 400 branch of a missing body is never taken.
UpdateProfile(r) ==
  LET q == [Ran(reqs[r], "handler") EXCEPT !.dbCalls = @ + 1] IN
  /\ Handling(r, "PUT /profile") \/ Handling(r, "PUT /profile/:id")
  /\ reqs[r].stage = 0
  /\ \/ /\ profiles' = Profiles_update(profiles, UpdateTarget(q), q.changes)
        /\ reqs' = [reqs EXCEPT ![r] = [q EXCEPT !.stage = 1]]
     \/ /\ reqs' = [reqs EXCEPT ![r] = Forward(q, 500, "normalized")]
        /\ UNCHANGED profiles
  /\ UNCHANGED <<resources, nextResourceId, allResources, pendingUpdates, notes, assignments, returned>>

UpdateProfileThen(r) ==
  /\ Handling(r, "PUT /profile") \/ Handling(r, "PUT /profile/:id")
  /\ reqs[r].stage = 1
  /\ \/ reqs' = [reqs EXCEPT ![r] = Respond(reqs[r], 200)]
     \/ reqs' = [reqs EXCEPT ![r] = Forward(reqs[r], 500, "normalized")]
  /\ UNCHANGED data

\* PUT /profile/is_active/:profile_id: the profile is read, and then
\* Profiles.updateIsActive is started and not awaited: the answer is sent
\* at once, and the update is applied, or fails, some time later.
ToggleIsActive(r) ==
  LET q == [Ran(reqs[r], "handler") EXCEPT !.dbCalls = @ + 1] IN
  /\ Handling(r, "PUT /profile/is_active/:profile_id")
  /\ reqs[r].stage = 0
  /\ \/ reqs' = [reqs EXCEPT ![r] =
           IF Profiles_exists(profiles, q.id)
             THEN [q EXCEPT !.stage = 1, !.seen = profiles[q.id].is_active]
             ELSE Forward(q, 500, "normalized")]
     \/ reqs' = [reqs EXCEPT ![r] = Forward(q, 500, "normalized")]
  /\ UNCHANGED data

ToggleIsActiveThen(r) ==
  LET q == [reqs[r] EXCEPT !.dbCalls = @ + 1] IN
  /\ Handling(r, "PUT /profile/is_active/:profile_id")
  /\ reqs[r].stage = 1
  /\ pendingUpdates' =
       pendingUpdates \cup {[by |-> r, id |-> q.id, is_active |-> q.seen]}
  /\ reqs' = [reqs EXCEPT ![r] =
        [Respond(q, 200) EXCEPT
           !.msg = IF ~q.seen THEN "profile is now active"
                              ELSE "profile is now inactive"]]
  /\ UNCHANGED <<resources, nextResourceId, allResources, profiles, notes,
               assignments, returned>>

ApplyPendingUpdate ==
  \E u \in pendingUpdates :
    /\ profiles' = Profiles_updateIsActive(profiles, u.id, u.is_active)
    /\ pendingUpdates' = pendingUpdates \ {u}
    /\ UNCHANGED <<resources, nextResourceId, allResources, reqs, notes,
                   assignments, returned>>

\* The update started and not awaited rejects: the rejection is handled
\* by nobody, and the request was answered 200 already.
FailPendingUpdate ==
  \E u \in pendingUpdates :
    /\ pendingUpdates' = pendingUpdates \ {u}
    /\ reqs' = [reqs EXCEPT ![u.by].err = "unhandled"]
    /\ UNCHANGED <<resources, nextResourceId, allResources, profiles, notes,
               assignments, returned>>

\* GET /profile/mentor/information: an outbound call, whose error is
\* handed to next as it is.
GetMentorInformation(r) ==
  LET q == Ran(reqs[r], "handler") IN
  /\ Handling(r, "GET /profile/mentor/information")
  /\ \/ reqs' = [reqs EXCEPT ![r] = Respond(q, 200)]
     \/ reqs' = [reqs EXCEPT ![r] = Forward(q, 500, "raw")]
  /\ UNCHANGED data

\* create inserts a row under the body's id; the table holds one row per id.
NewProfile == [role |-> "mentee", name |-> "n0", email |-> "e0", is_active |-> TRUE]

Profiles_create(tbl, id) ==
  [i \in DOMAIN tbl \cup {id} |-> IF i \in DOMAIN tbl THEN tbl[i] ELSE NewProfile]

\* POST /profile: Profiles.findById(id), and in its then-callback either
\* next(400) when a row came back or the call of Profiles.create.
CreateProfile(r) ==
  LET q == [Ran(reqs[r], "handler") EXCEPT !.dbCalls = @ + 1] IN
  /\ Handling(r, "POST /profile")
  /\ reqs[r].stage = 0
  /\ \/ reqs' = [reqs EXCEPT ![r] =
           IF Profiles_exists(profiles, q.id)
             THEN [Forward(q, 400, "normalized") EXCEPT !.msg = "profile already exists"]
             ELSE [q EXCEPT !.stage = 1]]
     \/ reqs' = [reqs EXCEPT ![r] = [Forward(q, 500, "normalized") EXCEPT !.msg = "db"]]
  /\ UNCHANGED data

\* Profiles.create is awaited inside the try: the row is inserted and 201
\* sent, or the insert is rejected (the id is taken by now, or the
\* database failed) and the catch forwards 500.
CreateProfileThen(r) ==
  LET q == [reqs[r] EXCEPT !.dbCalls = @ + 1, !.called = TRUE] IN
  /\ Handling(r, "POST /profile")
  /\ reqs[r].stage = 1
  /\ \/ /\ ~Profiles_exists(profiles, q.id)
        /\ profiles' = Profiles_create(profiles, q.id)
        /\ reqs' = [reqs EXCEPT ![r] = [Respond(q, 201) EXCEPT !.msg = "profile created"]]
     \/ /\ Profiles_exists(profiles, q.id)
        /\ reqs' = [reqs EXCEPT ![r] =
              [Forward(q, 500, "normalized") EXCEPT !.msg = "duplicate key"]]
        /\ UNCHANGED profiles
     \/ /\ reqs' = [reqs EXCEPT ![r] = [Forward(q, 500, "normalized") EXCEPT !.msg = "db"]]
        /\ UNCHANGED profiles
  /\ UNCHANGED <<resources, nextResourceId, allResources, pendingUpdates, notes,
                 assignments, returned>>

\* GET /profile/match/:id.  The outbound call to the matching service
\* resolves with a list of n profile ids or rejects.  The then-callback
\* maps an async function over the list and returns: each of the n calls
\* awaits its own Profiles.findById, pushes the mentor, and after the await
\* calls res.status(200).json({ matches: mentors }) itself.  With n = 0 no
\* call is made and nothing answers the request.
GetMatch(r) ==
  LET q == Ran(reqs[r], "handler") IN
  /\ Handling(r, "GET /profile/match/:id")
  /\ reqs[r].stage = 0
  /\ \/ \E n \in 0..MaxMatches :
          reqs' = [reqs EXCEPT ![r] =
            [q EXCEPT !.stage = 1, !.matches = n, !.dbCalls = @ + n, !.done = (n = 0)]]
     \/ reqs' = [reqs EXCEPT ![r] = [Forward(q, 500, "normalized") EXCEPT !.msg = "axios"]]
  /\ UNCHANGED data

\* All lookups have settled and every async call that got its mentor has
\* run to its end.
MatchEnded(q) == q.settled = q.matches /\ q.resumed = q.pushed

\* One of the lookups settles: its mentor is pushed, or it rejects inside
\* the async call, where nothing catches it.
MatchLookup(r) ==
  LET q == reqs[r] IN
  /\ Handling(r, "GET /profile/match/:id")
  /\ q.stage = 1 /\ q.settled < q.matches
  /\ \E q2 \in { [q EXCEPT !.settled = @ + 1, !.pushed = @ + 1],
                  [q EXCEPT !.settled = @ + 1, !.err = "unhandled", !.msg = "db"] } :
       reqs' = [reqs EXCEPT ![r] = [q2 EXCEPT !.done = MatchEnded(q2)]]
  /\ UNCHANGED data

\* An async call resumes after its await and sends the mentors pushed so
\* far; once a response has been sent, sending again throws inside the
\* async call, where nothing catches it.
MatchRespond(r) ==
  LET q == reqs[r]
      q2 == IF q.sends = 0
              THEN [q EXCEPT !.resumed = @ + 1, !.sends = 1, !.status = 200,
                             !.sentWith = q.pushed]
              ELSE [q EXCEPT !.resumed = @ + 1, !.err = "unhandled"] IN
  /\ Handling(r, "GET /profile/match/:id")
  /\ q.stage = 1 /\ q.resumed < q.pushed
  /\ reqs' = [reqs EXCEPT ![r] = [q2 EXCEPT !.done = MatchEnded(q2)]]
  /\ UNCHANGED data

IssueProfile(r) ==
  /\ reqs[r] = Idle
  /\ \/ \E token \in Tokens, changes \in SelfChanges :
          reqs' = [reqs EXCEPT ![r] =
            [NewRequest("PUT /profile", token, 0, NoBody) EXCEPT !.changes = changes]]
     \/ \E token \in Tokens, id \in TargetIds, changes \in AdminChanges :
          reqs' = [reqs EXCEPT ![r] =
            [NewRequest("PUT /profile/:id", token, id, NoBody)
               EXCEPT !.changes = changes]]
     \/ \E token \in Tokens, id \in TargetIds,
           route \in {"PUT /profile/is_active/:profile_id", "GET /profile/:id"} :
          reqs' = [reqs EXCEPT ![r] = NewRequest(route, token, id, NoBody)]
     \/ reqs' = [reqs EXCEPT ![r] =
          NewRequest("GET /profile/mentor/information", 0, 0, NoBody)]
     \/ \E token \in Tokens, id \in TargetIds :
          reqs' = [reqs EXCEPT ![r] = NewRequest("POST /profile", token, id, NoBody)]
     \/ \E token \in Tokens :
          reqs' = [reqs EXCEPT ![r] = NewRequest("GET /profile/match/:id", token, 3, NoBody)]
  /\ UNCHANGED data

InitProfile ==
  /\ resources = SeedResources
  /\ nextResourceId = 2
  /\ allResources = << >>
  /\ \E a \in BOOLEAN : profiles = [SeedProfiles EXCEPT ![3].is_active = a]
  /\ reqs = [r \in Slots |-> Idle]
  /\ pendingUpdates = {}
  /\ notes = << >>
  /\ assignments = NoAssignments
  /\ returned = NoCall

NextProfile ==
  \/ \E r \in Slots :
       \/ IssueProfile(r)
       \/ AuthRequired(r)
       \/ AdminRequired(r)
       \/ SuperAdminRequired(r)
       \/ Validation(r)
       \/ ValidateUser(r)
       \/ GetProfileById(r)
       \/ GetProfileByIdThen(r)
       \/ UpdateProfile(r)
       \/ UpdateProfileThen(r)
       \/ ToggleIsActive(r)
       \/ ToggleIsActiveThen(r)
       \/ GetMentorInformation(r)
       \/ CreateProfile(r)
       \/ CreateProfileThen(r)
       \/ GetMatch(r)
       \/ MatchLookup(r)
       \/ MatchRespond(r)
  \/ ApplyPendingUpdate
  \/ FailPendingUpdate

SpecProfile == InitProfile /\ [][NextProfile]_vars

(***************************************************************************)
(* Properties of the profile router.                                       *)
(***************************************************************************)
\* C3: when two PUT /profile/is_active/:profile_id calls on one profile
\* have both been answered 200, the second sent after the answer to the
\* first, and no update is outstanding or has failed, the active flag is
\* the one the first call found.
C3_ToggleTwice ==
  \A r1 \in Slots, r2 \in Slots :
    LET q1 == reqs[r1]
        q2 == reqs[r2] IN
    (/\ r1 # r2
     /\ q1.route = "PUT /profile/is_active/:profile_id" /\ q2.route = q1.route
     /\ q1.id = q2.id
     /\ q1.done /\ q1.status = 200 /\ q1.err = "none" /\ ~q1.after
     /\ q2.done /\ q2.status = 200 /\ q2.err = "none" /\ q2.after
     /\ pendingUpdates = {})
      => profiles[q1.id].is_active = q1.seen

\* C5: in every request authRequired runs before anything else of the
\* route (role check, validation, existence check, handler), and no data
\* access or outbound call is made for a request with no resolved profile.
C5_AuthRunsFirst ==
  \A r \in Slots :
    LET q == reqs[r] IN
    /\ Before(q.ran, "authRequired", "adminRequired")
    /\ Before(q.ran, "authRequired", "superAdminRequired")
    /\ Before(q.ran, "authRequired", "validation")
    /\ Before(q.ran, "authRequired", "validateUser")
    /\ Before(q.ran, "authRequired", "handler")
    /\ q.dbCalls > 0 => q.role # "unresolved"

\* C6: of a PUT /profile request whose body holds a name and an email,
\* only the step that calls Profiles.update changes the stored data, and
\* it sets the name and the email of the caller's own row to the body's,
\* leaving that row's role and active flag, and every other row, as they
\* were; a request answered 200 has made that step.
C6_SelfUpdateFrame ==
  /\ [](\A r \in Slots :
          (reqs[r].route = "PUT /profile" /\ reqs[r].done /\ reqs[r].status = 200)
            => reqs[r].stage = 1 /\ reqs[r].dbCalls = 1)
  /\ [][\A r \in Slots :
          (reqs[r].route = "PUT /profile" /\ Moved(r)) =>
            /\ UNCHANGED <<resources, nextResourceId, allResources, pendingUpdates>>
            /\ IF reqs[r].stage = 0 /\ reqs'[r].stage = 1
                 THEN profiles' =
                        [profiles EXCEPT
                           ![reqs[r].caller].name = reqs[r].changes.name,
                           ![reqs[r].caller].email = reqs[r].changes.email]
                 ELSE profiles' = profiles]_vars

C6_Witness ==
  \E r \in Slots :
    /\ reqs[r].route = "PUT /profile" /\ reqs[r].done /\ reqs[r].status = 200
    /\ reqs[r].caller = 3
    /\ profiles[3].name = "n1" /\ profiles[3].email = "e1"
    /\ profiles[3].role = "mentor"

\* C10: every request whose handler ran ends with exactly one answer,
\* either a response or one error of the shape {status, message} handed
\* to next, and leaves no rejection uncaught.
C10_NormalizedErrors ==
  \A r \in Slots :
    LET q == reqs[r] IN
    (q.done /\ \E i \in DOMAIN q.ran : q.ran[i] = "handler") =>
      /\ q.sends + q.nexts = 1
      /\ q.err \in {"none", "normalized"}

\* C11: of the authenticated POST /profile requests carrying one id that
\* had no profile, none of which met a database failure, at most one
\* invokes Profiles.create, and when two of them have ended one was
\* answered 201 'profile created' and the other 400 'profile already exists'.
C11_CreateOnce ==
  \A r1 \in Slots, r2 \in Slots :
    LET q1 == reqs[r1]
        q2 == reqs[r2] IN
    (/\ r1 # r2
     /\ q1.route = "POST /profile" /\ q2.route = "POST /profile"
     /\ q1.id = q2.id /\ q1.id \notin DOMAIN SeedProfiles
     /\ q1.caller # 0 /\ q2.caller # 0
     /\ q1.msg # "db" /\ q2.msg # "db")
      => /\ ~(q1.called /\ q2.called)
         /\ (q1.done /\ q2.done) =>
              \/ /\ q1.status = 201 /\ q1.msg = "profile created"
                 /\ q2.status = 400 /\ q2.msg = "profile already exists"
              \/ /\ q2.status = 201 /\ q2.msg = "profile created"
                 /\ q1.status = 400 /\ q1.msg = "profile already exists"

\* C13: a GET /profile/:id request whose handler ran ends with exactly one
\* response or one forwarded error, also when a lookup failed: 200 only for
\* an id that has a profile, 404 with 'ProfileNotFound', or 500.
C13_GetProfileById ==
  \A r \in Slots :
    LET q == reqs[r] IN
    (/\ q.route = "GET /profile/:id" /\ q.done
     /\ \E i \in DOMAIN q.ran : q.ran[i] = "handler")
      => /\ q.sends + q.nexts = 1
         /\ q.status \in {200, 404, 500}
         /\ q.status = 200 => Profiles_exists(profiles, q.id) /\ q.sends = 1
         /\ q.status = 404 => q.msg = "ProfileNotFound" /\ q.nexts = 1

\* C16: a GET /profile/match/:id request whose outbound call and lookups
\* all succeeded ends, for every length n of the matching service's list,
\* with exactly one response, 200, holding the n mentors looked up; no
\* response is sent with fewer, and nothing is raised after it.
C16_MatchSingleResponse ==
  \A r \in Slots :
    LET q == reqs[r] IN
    (q.route = "GET /profile/match/:id" /\ q.stage = 1 /\ q.msg # "db") =>
      /\ q.sends = 1 => q.sentWith = q.matches
      /\ q.done => /\ q.sends = 1 /\ q.nexts = 0 /\ q.status = 200
                   /\ q.err = "none"

\* C17: when PUT /profile/is_active/:profile_id has answered 200, the
\* update that request started has been applied: it is not outstanding and
\* has not failed; and of two such requests on one profile, both answered
\* and both applied, one found the flag the other had stored.
C17_ToggleApplied ==
  /\ \A r \in Slots :
       LET q == reqs[r] IN
       (q.route = "PUT /profile/is_active/:profile_id" /\ q.status = 200 /\ q.sends = 1)
         => /\ \A u \in pendingUpdates : u.by # r
            /\ q.err # "unhandled"
  /\ \A r1 \in Slots, r2 \in Slots :
       LET q1 == reqs[r1]
           q2 == reqs[r2] IN
       (/\ r1 # r2
        /\ q1.route = "PUT /profile/is_active/:profile_id" /\ q2.route = q1.route
        /\ q1.id = q2.id /\ q1.status = 200 /\ q2.status = 200
        /\ q1.err = "none" /\ q2.err = "none" /\ pendingUpdates = {})
         => q1.seen # q2.seen

(***************************************************************************)
(* The notes router.                                                       *)
(***************************************************************************)
NoteContents == {"a", "b"}

NoteIds == 1..(MaxNotes + 1)

\* Notes.create appends the note; its note_id is its place in the table.
Notes_create(tbl, content) == Append(tbl, content)

\* GET /notes and GET /notes/:note_id: one read, 200, or the error as it is.
GetNotes(r) ==
  LET q == [Ran(reqs[r], "handler") EXCEPT !.dbCalls = @ + 1] IN
  /\ Handling(r, "GET /notes") \/ Handling(r, "GET /notes/:note_id")
  /\ \/ reqs' = [reqs EXCEPT ![r] = Respond(q, 200)]
     \/ reqs' = [reqs EXCEPT ![r] = Forward(q, 500, "raw")]
  /\ UNCHANGED data

\* POST /notes: Notes.create(newNote), 201 with the created note.
PostNote(r) ==
  LET q == [Ran(reqs[r], "handler") EXCEPT !.dbCalls = @ + 1] IN
  /\ Handling(r, "POST /notes")
  /\ \/ /\ Len(notes) < MaxNotes
        /\ notes' = Notes_create(notes, q.content)
        /\ reqs' = [reqs EXCEPT ![r] = Respond(q, 201)]
     \/ /\ reqs' = [reqs EXCEPT ![r] = Forward(q, 500, "raw")]
        /\ UNCHANGED notes
  /\ UNCHANGED <<resources, nextResourceId, allResources, profiles, pendingUpdates,
                 assignments, returned>>

\* What a mistaken implementation of the stubs would do to the table.
PutNoteTable_Writes(tbl, id, content) ==
  IF id \in DOMAIN tbl THEN [tbl EXCEPT ![id] = content] ELSE tbl

DeleteNoteTable_Removes(tbl, id) ==
  IF id \in DOMAIN tbl THEN SubSeq(tbl, 1, id - 1) \o SubSeq(tbl, id + 1, Len(tbl))
                       ELSE tbl

\* The table after PUT /notes/:note_id and after DELETE /notes/:note_id:
\* neither handler calls the notes module.
PutNoteTable(tbl, id, content) == tbl

DeleteNoteTable(tbl, id) == tbl

PutNote(r) ==
  LET q == Ran(reqs[r], "handler") IN
  /\ Handling(r, "PUT /notes/:note_id")
  /\ notes' = PutNoteTable(notes, q.id, q.content)
  /\ reqs' = [reqs EXCEPT ![r] = [Respond(q, 501) EXCEPT !.msg = "put by noted_id not ready"]]
  /\ UNCHANGED <<resources, nextResourceId, allResources, profiles, pendingUpdates,
                 assignments, returned>>

DeleteNote(r) ==
  LET q == Ran(reqs[r], "handler") IN
  /\ Handling(r, "DELETE /notes/:note_id")
  /\ notes' = DeleteNoteTable(notes, q.id)
  /\ reqs' = [reqs EXCEPT ![r] =
        [Respond(q, 501) EXCEPT !.msg = "delete by note_id not ready"]]
  /\ UNCHANGED <<resources, nextResourceId, allResources, profiles, pendingUpdates,
                 assignments, returned>>

IssueNotes(r) ==
  /\ reqs[r] = Idle
  /\ \/ reqs' = [reqs EXCEPT ![r] = NewRequest("GET /notes", 0, 0, NoBody)]
     \/ \E id \in NoteIds, route \in {"GET /notes/:note_id", "DELETE /notes/:note_id"} :
          reqs' = [reqs EXCEPT ![r] = NewRequest(route, 0, id, NoBody)]
     \/ \E content \in NoteContents :
          reqs' = [reqs EXCEPT ![r] =
            [NewRequest("POST /notes", 0, 0, NoBody) EXCEPT !.content = content]]
     \/ \E id \in NoteIds, content \in NoteContents :
          reqs' = [reqs EXCEPT ![r] =
            [NewRequest("PUT /notes/:note_id", 0, id, NoBody) EXCEPT !.content = content]]
  /\ UNCHANGED data

NextNotes ==
  \E r \in Slots :
    \/ IssueNotes(r)
    \/ GetNotes(r)
    \/ PostNote(r)
    \/ PutNote(r)
    \/ DeleteNote(r)
    \/ Forget(r)

SpecNotes == Init /\ [][NextNotes]_vars

\* C12: PUT /notes/:note_id and DELETE /notes/:note_id are always answered
\* 501 and their step leaves the notes table as it is; in every step the
\* table keeps each note it had, with its content, and it grows only in the
\* step of a POST /notes that is answered 201.
C12_NotesCreateOnly ==
  /\ [](\A r \in Slots :
          (reqs[r].done /\ reqs[r].route \in {"PUT /notes/:note_id", "DELETE /notes/:note_id"})
            => reqs[r].status = 501 /\ reqs[r].sends = 1 /\ reqs[r].nexts = 0)
  /\ [][/\ Len(notes') >= Len(notes)
        /\ \A i \in DOMAIN notes : notes'[i] = notes[i]
        /\ \A r \in Slots :
             (Moved(r) /\ reqs[r].route \in {"PUT /notes/:note_id", "DELETE /notes/:note_id"})
               => notes' = notes
        /\ notes' # notes =>
             \E r \in Slots : /\ reqs[r].route = "POST /notes" /\ Moved(r)
                              /\ reqs'[r].status = 201
                              /\ notes' = Append(notes, reqs[r].content)]_vars

\* A note exists, and a DELETE and a PUT naming it have been answered.
C12_Witness ==
  /\ Len(notes) = MaxNotes
  /\ \E r1 \in Slots, r2 \in Slots :
       /\ reqs[r1].route = "DELETE /notes/:note_id" /\ reqs[r1].done
       /\ reqs[r1].id \in DOMAIN notes
       /\ reqs[r2].route = "PUT /notes/:note_id" /\ reqs[r2].done
       /\ reqs[r2].id \in DOMAIN notes /\ reqs[r2].content # notes[reqs[r2].id]

(***************************************************************************)
(* The assignments data-access module.  A table maps an assignment_id to   *)
(* its row; a call's resolved value is a list of rows, or the number the   *)
(* query builder resolves an update or a delete without a returning        *)
(* clause to: the count of the rows affected.                              *)
(***************************************************************************)
AssignmentIds == 1..MaxAssignments

NoAssignment == [present |-> FALSE, mentor_id |-> 0, mentee_id |-> 0]

Assignment(mentor, mentee) ==
  [present |-> TRUE, mentor_id |-> mentor, mentee_id |-> mentee]

\* Assignment rows reference existing profiles (the table's foreign keys).
AssignmentRows ==
  {NoAssignment} \cup {Assignment(a, b) : a \in ProfileIds, b \in ProfileIds}

AssignmentTables == [AssignmentIds -> AssignmentRows]

\* The supplied fields of an Update, 0 standing for a field not supplied.
AssignmentChanges ==
  {[mentor_id |-> a, mentee_id |-> b] : a \in {0, 2}, b \in {0, 3}} \
    {[mentor_id |-> 0, mentee_id |-> 0]}

\* The profiles the joins read, each with an email of its own.
AssignmentProfiles ==
  [p \in ProfileIds |->
     [SeedProfiles[p] EXCEPT !.email = IF p = 1 THEN "e1" ELSE IF p = 2 THEN "e2" ELSE "e3"]]

Rows(S) == [kind |-> "rows", rows |-> S, n |-> 0]

Count(n) == [kind |-> "count", rows |-> {}, n |-> n]

\* The rows of tbl that satisfy where({ assignment_id }).
WhereAssignmentId(tbl, assignment_id) ==
  {a \in DOMAIN tbl : tbl[a].present /\ a = assignment_id}

\* select a.assignment_id, a.mentee_id, p.email, p.first_name, p.role_id
\* from assignments a join profiles p on p.profile_id = a.mentee_id
\* where mentor_id = id
findByMentorId(tbl, prof, id) ==
  Rows({ [assignment_id |-> a, other_id |-> tbl[a].mentee_id,
          email |-> prof[p].email, first_name |-> prof[p].name,
          role_id |-> prof[p].role] :
         <<a, p>> \in { ap \in (DOMAIN tbl) \X (DOMAIN prof) :
                         /\ tbl[ap[1]].present
                         /\ ap[2] = tbl[ap[1]].mentee_id
                         /\ tbl[ap[1]].mentor_id = id } })

\* the same with mentor and mentee exchanged
findByMenteeId(tbl, prof, id) ==
  Rows({ [assignment_id |-> a, other_id |-> tbl[a].mentor_id,
          email |-> prof[p].email, first_name |-> prof[p].name,
          role_id |-> prof[p].role] :
         <<a, p>> \in { ap \in (DOMAIN tbl) \X (DOMAIN prof) :
                         /\ tbl[ap[1]].present
                         /\ ap[2] = tbl[ap[1]].mentor_id
                         /\ tbl[ap[1]].mentee_id = id } })

\* db('assignments').where({ assignment_id }).update(changes): the table after
Assignments_UpdateTable(tbl, assignment_id, changes) ==
  [a \in DOMAIN tbl |->
     IF a \in WhereAssignmentId(tbl, assignment_id)
       THEN [tbl[a] EXCEPT
               !.mentor_id = IF changes.mentor_id # 0 THEN changes.mentor_id ELSE @,
               !.mentee_id = IF changes.mentee_id # 0 THEN changes.mentee_id ELSE @]
       ELSE tbl[a]]

\* db('assignments').where({ assignment_id }).del(): the table after
Assignments_RemoveTable(tbl, assignment_id) ==
  [a \in DOMAIN tbl |->
     IF a \in WhereAssignmentId(tbl, assignment_id) THEN NoAssignment ELSE tbl[a]]

\* what update(changes) and del() resolve to
Assignments_Affected(tbl, assignment_id) ==
  Count(Cardinality(WhereAssignmentId(tbl, assignment_id)))

CallFind ==
  \E id \in ProfileIds :
    /\ \/ returned' = [op |-> "findByMentorId", id |-> id, changes |-> NoCall.changes, before |-> assignments,
                       value |-> findByMentorId(assignments, profiles, id)]
       \/ returned' = [op |-> "findByMenteeId", id |-> id, changes |-> NoCall.changes, before |-> assignments,
                       value |-> findByMenteeId(assignments, profiles, id)]
    /\ UNCHANGED <<resources, nextResourceId, allResources, profiles, pendingUpdates,
                   reqs, notes, assignments>>

CallUpdate ==
  \E id \in 1..(MaxAssignments + 1), changes \in AssignmentChanges :
    /\ assignments' = Assignments_UpdateTable(assignments, id, changes)
    /\ returned' = [op |-> "Update", id |-> id, changes |-> changes, before |-> assignments,
                    value |-> Assignments_Affected(assignments, id)]
    /\ UNCHANGED <<resources, nextResourceId, allResources, profiles, pendingUpdates,
                   reqs, notes>>

CallRemove ==
  \E id \in 1..(MaxAssignments + 1) :
    /\ assignments' = Assignments_RemoveTable(assignments, id)
    /\ returned' = [op |-> "Remove", id |-> id, changes |-> NoCall.changes,
                    before |-> assignments,
                    value |-> Assignments_Affected(assignments, id)]
    /\ UNCHANGED <<resources, nextResourceId, allResources, profiles, pendingUpdates,
                   reqs, notes>>

InitAssignments ==
  /\ resources = SeedResources
  /\ nextResourceId = 2
  /\ allResources = << >>
  /\ profiles = AssignmentProfiles
  /\ reqs = [r \in Slots |-> Idle]
  /\ pendingUpdates = {}
  /\ notes = << >>
  /\ assignments \in AssignmentTables
  /\ returned = NoCall

NextAssignments == CallFind \/ CallUpdate \/ CallRemove

SpecAssignments == InitAssignments /\ [][NextAssignments]_vars

\* What the uniform contract of the data-access modules has a call return:
\* the updated row from an update, nothing from a delete.
TheRow(assignment_id, row) ==
  [kind |-> "row",
   rows |-> {[assignment_id |-> assignment_id, mentor_id |-> row.mentor_id,
              mentee_id |-> row.mentee_id]},
   n |-> 0]

Nothing == [kind |-> "nothing", rows |-> {}, n |-> 0]

\* The assignments a find is said to return, each with the profile fields
\* of the other side of the pair.
SaidToFind(tbl, prof, side, id) ==
  { [assignment_id |-> a,
     other_id |-> IF side = "mentor" THEN tbl[a].mentee_id ELSE tbl[a].mentor_id,
     email |-> prof[IF side = "mentor" THEN tbl[a].mentee_id ELSE tbl[a].mentor_id].email,
     first_name |-> prof[IF side = "mentor" THEN tbl[a].mentee_id ELSE tbl[a].mentor_id].name,
     role_id |-> prof[IF side = "mentor" THEN tbl[a].mentee_id ELSE tbl[a].mentor_id].role] :
    a \in { x \in DOMAIN tbl :
              /\ tbl[x].present
              /\ (IF side = "mentor" THEN tbl[x].mentor_id ELSE tbl[x].mentee_id) = id } }

\* The table and the rows of a call are as the contract says.
AssignmentsEffects ==
  LET b == returned.before IN
  /\ returned.op = "findByMentorId" =>
       /\ assignments = b
       /\ returned.value.rows = SaidToFind(b, profiles, "mentor", returned.id)
  /\ returned.op = "findByMenteeId" =>
       /\ assignments = b
       /\ returned.value.rows = SaidToFind(b, profiles, "mentee", returned.id)
  /\ returned.op = "Update" =>
       /\ DOMAIN assignments = DOMAIN b
       /\ \A a \in DOMAIN b : a # returned.id => assignments[a] = b[a]
       /\ \A a \in DOMAIN b :
            a = returned.id =>
              /\ assignments[a].present = b[a].present
              /\ assignments[a].mentor_id =
                   IF b[a].present /\ returned.changes.mentor_id # 0
                     THEN returned.changes.mentor_id ELSE b[a].mentor_id
              /\ assignments[a].mentee_id =
                   IF b[a].present /\ returned.changes.mentee_id # 0
                     THEN returned.changes.mentee_id ELSE b[a].mentee_id
  /\ returned.op = "Remove" =>
       /\ DOMAIN assignments = DOMAIN b
       /\ \A a \in DOMAIN b : a # returned.id => assignments[a] = b[a]
       /\ \A a \in DOMAIN b : a = returned.id => ~assignments[a].present

\* C14: findByMentorId(id) and findByMenteeId(id) return exactly the
\* assignments of that mentor, of that mentee, each with the profile fields
\* of the other side; Update changes only the row named and returns the
\* updated row; Remove removes only the row named and returns nothing.
C14_AssignmentsContract ==
  /\ AssignmentsEffects
  /\ (returned.op = "Update" /\ returned.id \in DOMAIN returned.before
        /\ returned.before[returned.id].present) =>
       returned.value = TheRow(returned.id, assignments[returned.id])
  /\ returned.op = "Remove" => returned.value = Nothing

====
